---------------------------- MODULE Spec2Model ----------------------------
(***************************************************************************)
(* Model of the document search engine of app/search_engine.py and of the  *)
(* upload handler of app/main.py.                                           *)
(*                                                                         *)
(* The store (PostgreSQL, read committed) is the pair docs/index; the      *)
(* result cache (Redis) is the function cache.  Every request handler is a *)
(* coroutine on one asyncio event loop: the code between two awaits runs   *)
(* atomically, so every action below is the code from one await to the     *)
(* next, and each await on the store or on the cache may fail.             *)
(***************************************************************************)
EXTENDS Integers, Sequences, FiniteSets, TLC

(***************************************************************************)
(* Bounds of the model.                                                    *)
(***************************************************************************)
NumProcs == 2       \* request handlers that can run at the same time
MaxCalls == 2       \* calls of a run with concurrent handlers
MaxSeqCalls == 3    \* calls of a sequential run
MaxLen == 3         \* length of the texts split_to_words is called with

Procs == 1..NumProcs

Names == {"d1", "d2"}

\* Texts are sequences of one-character strings.
ShortText == <<"a", " ", "B", " ", "a">>
LongText == <<"a", "-", "a", "a", "a", "a", "a", "a", "a", "a", "a">>
PunctText == <<"!", "!", "!", "!", "!", "!", "!", "!", "!", "!", "!">>
BlankText == <<" ", " ", " ">>
EmptyText == <<>>

\* the contents add_document is called with directly, and the contents of
\* the files sent to upload_file
DirectContents == {ShortText, BlankText, EmptyText}
UploadContents == {LongText, PunctText, ShortText}

AddCalls ==
  ({"add"} \X DirectContents) \cup ({"upload"} \X UploadContents)

Queries ==
  { <<"a">>, <<"b">>, <<" ", "B", " ">>, <<"c">>, <<"-">>, <<" ", " ">>, <<>> }

\* The stores and the queries of the runs that only search.
CatText == <<"t", "h", "e", " ", "c", "a", "t", " ", "s", "a", "t", " ", "o", "n", " ", "t", "h", "e", " ", "m", "a", "t">>
DogText == <<"t", "h", "e", " ", "d", "o", "g", " ", "s", "a", "t", " ", "o", "n", " ", "t", "h", "e", " ", "l", "o", "g">>

\* word counts of the documents of the large store: each has the word "a"
\* once and the word "b" for the rest; one more document has only "b"
PoolWordCounts == <<1, 2, 3, 4, 5, 6, 10, 12, 15, 20, 20>>

RECURSIVE Filler(_)
Filler(n) == IF n = 0 THEN <<>> ELSE <<" ", "b">> \o Filler(n - 1)

PoolText(i) == IF i = 0 THEN <<"b">> ELSE <<"a">> \o Filler(PoolWordCounts[i] - 1)

PoolNames ==
  <<"p0", "p1", "p2", "p3", "p4", "p5", "p6", "p7", "p8", "p9", "p10", "p11">>

PoolName(i) == PoolNames[i + 1]

PoolSizes == {1, 2, 4, Len(PoolWordCounts)}

ScoreQueries ==
  { <<"c", "a", "t">>, <<"s", "a", "t">>, <<"c", "a", "t", " ", "s", "a", "t">>,
    <<"C", "A", "T", " ", "c", "a", "t">>, <<"a">>, <<"A", " ", "a">>, <<"b">> }

\* The texts of the direct calls of split_to_words.
HelloText ==
  <<"H", "e", "l", "l", "o", ",", " ", "w", "o", "r", "l", "d", "?", " ", "H", "o", "w", "'", "s", " ", "i", "t", " ", "g", "o", "i", "n", "g", "?">>

DigitsText ==
  <<"T", "e", "s", "t", "1", "2", "3", " ", "t", "e", "s", "t", "_", "4", "5", "6", " ", "t", "e", "s", "t", "-", "7", "8", "9">>

Alphabet == {"a", "B", "1", "_", "-", "'", " "}

SplitTexts ==
  UNION {[1..n -> Alphabet] : n \in 0..MaxLen} \cup {HelloText, DigitsText}

\* " ".join(words)
RECURSIVE join(_)
join(words) ==
  IF words = <<>> THEN <<>>
  ELSE IF Len(words) = 1 THEN Head(words)
  ELSE Head(words) \o <<" ">> \o join(Tail(words))

(***************************************************************************)
(* Characters: str.lower, str.strip and the regex class \w.                *)
(***************************************************************************)
UpperChars ==
  <<"A", "B", "C", "D", "E", "F", "G", "H", "I", "J", "K", "L", "M",
    "N", "O", "P", "Q", "R", "S", "T", "U", "V", "W", "X", "Y", "Z">>

LowerChars ==
  <<"a", "b", "c", "d", "e", "f", "g", "h", "i", "j", "k", "l", "m",
    "n", "o", "p", "q", "r", "s", "t", "u", "v", "w", "x", "y", "z">>

DigitChars == <<"0", "1", "2", "3", "4", "5", "6", "7", "8", "9">>

SpaceChars == {" ", "\t", "\n", "\r"}

Range(s) == {s[i] : i \in DOMAIN s}

\* str.lower, character by character
LowerMap ==
  [c \in Range(UpperChars) |->
     LowerChars[CHOOSE i \in DOMAIN UpperChars : UpperChars[i] = c]]

LowerChar(c) == IF c \in DOMAIN LowerMap THEN LowerMap[c] ELSE c

lower(text) == [i \in DOMAIN text |-> LowerChar(text[i])]

strip(text) ==
  LET keep == {i \in DOMAIN text : text[i] \notin SpaceChars}
  IN  IF keep = {} THEN <<>>
      ELSE SubSeq(text,
                  CHOOSE i \in keep : \A j \in keep : i <= j,
                  CHOOSE i \in keep : \A j \in keep : j <= i)

\* \w
WordChars ==
  Range(UpperChars) \cup Range(LowerChars) \cup Range(DigitChars) \cup {"_"}

\* mutant of IsWordChar: the apostrophe is a word character
IsWordCharOrApostrophe(c) == c \in WordChars \cup {"'"}

IsWordChar(c) == c \in WordChars

WordAt(text, i) == i \in DOMAIN text /\ IsWordChar(text[i])

\* \b at the position before character i (i in 1..Len(text)+1)
WordBoundary(text, i) == WordAt(text, i - 1) # WordAt(text, i)

\* the ends e of the matches of \b\w+\b that start at position s
MatchEnds(text, s) ==
  { e \in s..Len(text) :
      /\ WordBoundary(text, s)
      /\ \A k \in s..e : IsWordChar(text[k])
      /\ WordBoundary(text, e + 1) }

Max(S) == CHOOSE x \in S : \A y \in S : y <= x

\* re.findall: leftmost match, \w+ greedy, the scan goes on after the match
RECURSIVE findall(_, _)
findall(text, pos) ==
  IF pos > Len(text) THEN <<>>
  ELSE IF MatchEnds(text, pos) # {}
    THEN LET e == Max(MatchEnds(text, pos))
         IN  <<SubSeq(text, pos, e)>> \o findall(text, e + 1)
    ELSE findall(text, pos + 1)

\* mutant of split_to_words: the text is not lowercased
split_to_wordsNoLower(text) ==
  IF text = <<>> THEN <<>> ELSE findall(text, 1)

split_to_words(text) ==
  IF text = <<>> THEN <<>> ELSE findall(lower(text), 1)

\* mutant of Counter: every word counted once
CounterOnes(words) == [w \in Range(words) |-> 1]

\* collections.Counter(words)
Counter(words) ==
  [w \in Range(words) |-> Cardinality({i \in DOMAIN words : words[i] = w})]



(***************************************************************************)
(* The state.                                                              *)
(***************************************************************************)
VARIABLES
  docs,             \* table documents: rows [id, name, content, word_count]
  index,            \* table inverted_index: rows [word, doc_id, count]
  nextId,           \* the autoincrement sequence of documents.id
  cache,            \* Redis: cache key -> [data, seq]
  commitSeq,        \* history: number of ingests whose index rows are committed
  calls,            \* number of calls started so far
  pc,               \* per handler: the await it is suspended at
  kind,             \* per handler: "upload", "add" or "search"
  arg,              \* per handler: the call's arguments
  began,            \* history: number of calls that had returned when it began
  new_doc,          \* add_document: new_doc
  total_documents,  \* search: total_documents
  results,          \* search: results
  readSeq,          \* history: commitSeq when the scoring query read the store
  log,              \* history: the calls that have returned, in return order
  migration         \* run_migrations: where it is, attempts made, last outcome

vars ==
  <<docs, index, nextId, cache, commitSeq, calls, pc, kind, arg, began,
    new_doc, total_documents, results, readSeq, log, migration>>

store == <<docs, index, nextId, commitSeq>>
handlers == <<pc, kind, arg, began, new_doc, total_documents, results, readSeq>>

NoDoc == [id |-> 0, name |-> "", content |-> <<>>, word_count |-> 0]
NoArg == [name |-> "", content |-> <<>>, query |-> <<>>]
NoException == [class |-> "none", msg |-> <<>>]

\* on_startup has run the migrations before the first request is served
Migrated == [pc |-> "returned", attempt |-> 1, e |-> NoException]

\* schemas.DocumentCreate: content = Field(..., min_length=11)
MinContentLen == 11

\* .limit(10)
Limit == 10

InFlight(p) == pc[p] # "idle"
AllReturned == \A p \in Procs : ~InFlight(p)

(***************************************************************************)
(* The scoring query of search.                                            *)
(***************************************************************************)
\* log() of PostgreSQL on small integers, in millionths
LogMicro(n) ==
  CASE n = 1 -> 0
    [] n = 2 -> 301030
    [] n = 3 -> 477121
    [] n = 4 -> 602060
    [] n = 5 -> 698970
    [] n = 6 -> 778151
    [] n = 7 -> 845098
    [] n = 8 -> 903090
    [] n = 9 -> 954243
    [] n = 10 -> 1000000
    [] n = 11 -> 1041393
    [] n = 12 -> 1079181
    [] n = 13 -> 1113943

\* scores are kept as integers: millionths, times ScoreDen (every word_count
\* of the model divides ScoreDen, so the division by word_count is exact)
ScoreDen == 2 * 2 * 3 * 5

greatest(a, b) == IF a >= b THEN a ELSE b

RECURSIVE SumOver(_, _)
SumOver(S, f) ==
  IF S = {} THEN 0
  ELSE LET x == CHOOSE y \in S : TRUE IN f[x] + SumOver(S \ {x}, f)

\* df_subq: word -> count(doc_id), for the query words that have index rows
df_subq(idx, query_words) ==
  [w \in {e.word : e \in {x \in idx : x.word \in Range(query_words)}} |->
     Cardinality({e \in idx : e.word = w})]

\* log((N + 1) / (greatest(df, 0) + 1))
log_idf_expr(N, df) == LogMicro(N + 1) - LogMicro(greatest(df, 0) + 1)

\* count / greatest(word_count, 1), times ScoreDen
tf_expr(count, word_count) == (count * ScoreDen) \div greatest(word_count, 1)

\* the joined rows of one document, and sum(tf * idf) over them
JoinedRows(d, idx, query_words) ==
  {e \in idx : e.doc_id = d.id /\ e.word \in Range(query_words)
                /\ e.word \in DOMAIN df_subq(idx, query_words)}

score_expr(d, ds, idx, query_words, N) ==
  LET rows == JoinedRows(d, idx, query_words)
      dfs  == df_subq(idx, query_words)
  IN  SumOver(rows,
        [e \in rows |-> tf_expr(e.count, d.word_count) * log_idf_expr(N, dfs[e.word])])

\* the groups of the statement: one row per document with a joined row
GroupRows(ds, idx, query_words, N) ==
  { [doc_id |-> d.id, doc_name |-> d.name,
     total_score |-> score_expr(d, ds, idx, query_words, N)] :
    d \in {x \in ds : JoinedRows(x, idx, query_words) # {}} }

\* ORDER BY score DESC LIMIT k: the first row is any of the rows with the
\* greatest score, and so on: any order of the ties the database picks
RECURSIVE order_by_limit(_, _)
order_by_limit(groups, k) ==
  IF k = 0 \/ groups = {} THEN {<<>>}
  ELSE LET top == {g \in groups :
                     \A h \in groups : g.total_score >= h.total_score}
       IN  UNION { {<<g>> \o rest : rest \in order_by_limit(groups \ {g}, k - 1)} :
                   g \in top }

\* mutant of stmt: one row more than the limit
stmtLimitPlusOne(ds, idx, query_words, N) ==
  order_by_limit(GroupRows(ds, idx, query_words, N), Limit + 1)

\* the rows db.execute(stmt) can return
stmt(ds, idx, query_words, N) ==
  order_by_limit(GroupRows(ds, idx, query_words, N), Limit)

\* mutant of ProcessRows: only rows with a positive score are kept
RECURSIVE ProcessRowsPositive(_)
ProcessRowsPositive(rows) ==
  IF rows = <<>> THEN <<>>
  ELSE (IF Head(rows).total_score > 0
          THEN <<[name |-> Head(rows).doc_name, score |-> Head(rows).total_score]>>
          ELSE <<>>) \o ProcessRowsPositive(Tail(rows))

\* the loop over rows: rows with a score >= 0 become SearchResult(name, score)
RECURSIVE ProcessRows(_)
ProcessRows(rows) ==
  IF rows = <<>> THEN <<>>
  ELSE (IF Head(rows).total_score >= 0
          THEN <<[name |-> Head(rows).doc_name, score |-> Head(rows).total_score]>>
          ELSE <<>>) \o ProcessRows(Tail(rows))

(***************************************************************************)
(* The cache.                                                              *)
(***************************************************************************)
EmptyCache == <<>>

cache_key(query_lower) == <<"search:">> \o query_lower

pickle_dumps(res) == [pickled |-> res]
pickle_loads(data) == data.pickled

redis_set(c, key, value) ==
  [k \in DOMAIN c \cup {key} |-> IF k = key THEN value ELSE c[k]]

redis_delete(c, key) == [k \in DOMAIN c \ {key} |-> c[k]]


(***************************************************************************)
(* Calls and their outcomes.                                               *)
(***************************************************************************)
\* what leaves the try block of upload_file: add_document's exception, or
\* the HTTPException(400) the handler raises inside the try when
\* add_document returned None
RaisedInTry(site, e) == IF site = 64 THEN "HTTPException" ELSE e

\* mutant of ExceptClauses: the clause for Exception comes first
ExceptClausesGeneralFirst(x) == IF x = "none" THEN 201 ELSE 500

\* the except clauses of upload_file, in order: IntegrityError, then Exception
\* (which HTTPException, IntegrityError and OperationalError all derive from)
ExceptClauses(x) ==
  IF x = "none" THEN 201
  ELSE IF x = "IntegrityError" THEN 409
  ELSE 500

\* the HTTP status upload_file answers when add_document ended at source line
\* site raising e ("none": it returned)
upload_file_status(site, e) == ExceptClauses(RaisedInTry(site, e))

\* the record of a returned call: its arguments, the source line of the
\* return or raise that ended it (0: upload_file never called add_document),
\* the exception raised, the HTTP status (0 for a direct call), add_document's
\* new_doc and search's returned list
LogEntry(k, a, b, site, e, d, res) ==
  [kind |-> k, name |-> a.name, content |-> a.content, query |-> a.query,
   began |-> b, site |-> site, exc |-> e,
   status |-> IF k # "upload" THEN 0
              ELSE IF site = 0 THEN 400
              ELSE upload_file_status(site, e),
   new_doc |-> d, results |-> res]

\* A request arrives and gets a handler.  Handlers are interchangeable, so the
\* request takes the first one that is not running a call.
Free(p) == ~InFlight(p) /\ \A r \in Procs : r < p => InFlight(r)

\* the call starts and returns before its first await
Immediate(p, k, a, site, res) ==
  /\ log' = Append(log, LogEntry(k, a, Len(log), site, "none", NoDoc, res))
  /\ UNCHANGED handlers

\* the call starts and suspends at its first await
Enter(p, k, a, label) ==
  /\ pc' = [pc EXCEPT ![p] = label]
  /\ kind' = [kind EXCEPT ![p] = k]
  /\ arg' = [arg EXCEPT ![p] = a]
  /\ began' = [began EXCEPT ![p] = Len(log)]
  /\ UNCHANGED <<new_doc, total_documents, results, readSeq, log>>

Goto(p, label) == pc' = [pc EXCEPT ![p] = label]

\* the call of handler p ends at source line site
Leave(p, site, e, res) ==
  /\ log' = Append(log, LogEntry(kind[p], arg[p], began[p], site, e, new_doc[p], res))
  /\ pc' = [pc EXCEPT ![p] = "idle"]
  /\ kind' = [kind EXCEPT ![p] = "none"]
  /\ arg' = [arg EXCEPT ![p] = NoArg]
  /\ began' = [began EXCEPT ![p] = 0]
  /\ new_doc' = [new_doc EXCEPT ![p] = NoDoc]
  /\ total_documents' = [total_documents EXCEPT ![p] = 0]
  /\ results' = [results EXCEPT ![p] = <<>>]
  /\ readSeq' = [readSeq EXCEPT ![p] = 0]

\* a direct call of split_to_words(text)
SplitCall(p, text) ==
  /\ Free(p)
  /\ calls' = calls + 1
  /\ UNCHANGED <<store, cache>>
  /\ Immediate(p, "split", [NoArg EXCEPT !.content = text],
               IF text = <<>> THEN 31 ELSE 32, split_to_words(text))

(***************************************************************************)
(* add_document, called directly (k = "add") or by upload_file             *)
(* (k = "upload").                                                         *)
(***************************************************************************)
\* Document(name=name, content=content, word_count=total_words_in_doc), with
\* the id the insert gives it
Document(id, name, content) ==
  [id |-> id, name |-> name, content |-> content,
   word_count |-> Len(split_to_words(content))]

\* [InvertedIndex(word=word, doc_id=new_doc.id, count=count) for word, count ...]
index_entries(content, doc_id) ==
  LET word_counts == Counter(split_to_words(content))
  IN  { [word |-> w, doc_id |-> doc_id, count |-> word_counts[w]] :
        w \in DOMAIN word_counts }

\* mutant of AddStart: no early return for content without words
AddStartNoEmptyCheck(p, k, name, content) ==
  /\ Free(p)
  /\ calls' = calls + 1
  /\ UNCHANGED <<store, cache>>
  /\ LET a == [NoArg EXCEPT !.name = name, !.content = content]
     IN  IF k = "upload" /\ Len(content) < MinContentLen
           THEN Immediate(p, k, a, 0, <<>>)
           ELSE Enter(p, k, a, "commit_doc")

\* upload_file up to the call, then add_document up to its first await
AddStart(p, k, name, content) ==
  /\ Free(p)
  /\ calls' = calls + 1
  /\ UNCHANGED <<store, cache>>
  /\ LET a == [NoArg EXCEPT !.name = name, !.content = content]
     IN  IF k = "upload" /\ Len(content) < MinContentLen
           THEN Immediate(p, k, a, 0, <<>>)
           ELSE IF split_to_words(content) = <<>>
             THEN Immediate(p, k, a, 64, <<>>)
             ELSE Enter(p, k, a, "commit_doc")

\* the except clause of add_document: rollback, raise
AddRaise(p, e) ==
  /\ Leave(p, 101, e, <<>>)
  /\ UNCHANGED <<store, cache, calls>>

\* mutant of CommitDoc: documents.name without its unique constraint
CommitDocNoUnique(p, outcome) ==
  /\ pc[p] = "commit_doc"
  /\ CASE outcome = "fail" -> AddRaise(p, "OperationalError")
       [] outcome = "ok" ->
            /\ docs' = docs \cup {Document(nextId, arg[p].name, arg[p].content)}
            /\ nextId' = nextId + 1
            /\ new_doc' = [new_doc EXCEPT ![p] =
                             Document(nextId, arg[p].name, arg[p].content)]
            /\ Goto(p, "refresh")
            /\ UNCHANGED <<index, commitSeq, cache, calls, kind, arg, began,
                           total_documents, results, readSeq, log>>

\* await db.commit() of the Document row
CommitDoc(p, outcome) ==
  /\ pc[p] = "commit_doc"
  /\ CASE outcome = "fail" -> AddRaise(p, "OperationalError")
       [] outcome = "ok" ->
            IF \E d \in docs : d.name = arg[p].name
              THEN AddRaise(p, "IntegrityError")
              ELSE /\ docs' = docs \cup {Document(nextId, arg[p].name, arg[p].content)}
                   /\ nextId' = nextId + 1
                   /\ new_doc' = [new_doc EXCEPT ![p] =
                                    Document(nextId, arg[p].name, arg[p].content)]
                   /\ Goto(p, "refresh")
                   /\ UNCHANGED <<index, commitSeq, cache, calls, kind, arg, began,
                                  total_documents, results, readSeq, log>>

\* await db.refresh(new_doc)
Refresh(p, outcome) ==
  /\ pc[p] = "refresh"
  /\ CASE outcome = "fail" -> AddRaise(p, "OperationalError")
       [] outcome = "ok" ->
            /\ Goto(p, "commit_index")
            /\ UNCHANGED <<store, cache, calls, kind, arg, began, new_doc,
                           total_documents, results, readSeq, log>>

\* mutant of CommitIndex: inverted_index keyed by the word alone, so the rows
\* of a word replace the rows other documents have for it
CommitIndexWordKey(p, outcome) ==
  /\ pc[p] = "commit_index"
  /\ CASE outcome = "fail" -> AddRaise(p, "OperationalError")
       [] outcome = "ok" ->
            /\ index' =
                 LET entries == index_entries(arg[p].content, new_doc[p].id)
                 IN  {e \in index : \A n \in entries : n.word # e.word} \cup entries
            /\ commitSeq' = commitSeq + 1
            /\ Goto(p, "flush")
            /\ UNCHANGED <<docs, nextId, cache, calls, kind, arg, began, new_doc,
                           total_documents, results, readSeq, log>>

\* mutant of CommitIndex: the rows get the id of the Document inserted last
CommitIndexLastId(p, outcome) ==
  /\ pc[p] = "commit_index"
  /\ CASE outcome = "fail" -> AddRaise(p, "OperationalError")
       [] outcome = "ok" ->
            /\ index' = index \cup index_entries(arg[p].content, nextId - 1)
            /\ commitSeq' = commitSeq + 1
            /\ Goto(p, "flush")
            /\ UNCHANGED <<docs, nextId, cache, calls, kind, arg, began, new_doc,
                           total_documents, results, readSeq, log>>

\* await db.commit() of the InvertedIndex rows
CommitIndex(p, outcome) ==
  /\ pc[p] = "commit_index"
  /\ CASE outcome = "fail" -> AddRaise(p, "OperationalError")
       [] outcome = "ok" ->
            /\ index' = index \cup index_entries(arg[p].content, new_doc[p].id)
            /\ commitSeq' = commitSeq + 1
            /\ Goto(p, "flush")
            /\ UNCHANGED <<docs, nextId, cache, calls, kind, arg, began, new_doc,
                           total_documents, results, readSeq, log>>

\* mutant of Flush: a failure of flushdb is not caught
FlushFailureRaises(p, outcome) ==
  /\ pc[p] = "flush"
  /\ IF outcome = "ok"
       THEN cache' = EmptyCache /\ Leave(p, 96, "none", <<>>)
       ELSE cache' = cache /\ Leave(p, 101, "ConnectionError", <<>>)
  /\ UNCHANGED <<store, calls>>

\* mutant of Flush: add_document returns without flushing the cache
FlushNothing(p, outcome) ==
  /\ pc[p] = "flush"
  /\ cache' = cache
  /\ Leave(p, 96, "none", <<>>)
  /\ UNCHANGED <<store, calls>>

\* await self.redis_client.flushdb(), its failure caught; return new_doc
Flush(p, outcome) ==
  /\ pc[p] = "flush"
  /\ cache' = IF outcome = "ok" THEN EmptyCache ELSE cache
  /\ Leave(p, 96, "none", <<>>)
  /\ UNCHANGED <<store, calls>>

(***************************************************************************)
(* search.                                                                 *)
(***************************************************************************)
\* mutant of query_lower: the query is not stripped
query_lowerNoStrip(query) == lower(query)

\* query.lower().strip()
query_lower(query) == strip(lower(query))

\* mutant of SearchStart: no early return for a blank query
SearchStartNoBlankCheck(p, query) ==
  /\ Free(p)
  /\ calls' = calls + 1
  /\ UNCHANGED <<store, cache>>
  /\ Enter(p, "search", [NoArg EXCEPT !.query = query], "cache_get")

\* query_lower = query.lower().strip(); if not query_lower: return []
SearchStart(p, query) ==
  /\ Free(p)
  /\ calls' = calls + 1
  /\ UNCHANGED <<store, cache>>
  /\ LET a == [NoArg EXCEPT !.query = query]
     IN  IF query_lower(query) = <<>>
           THEN Immediate(p, "search", a, 111, <<>>)
           ELSE Enter(p, "search", a, "cache_get")

\* after a miss or a cache error: the query words, up to the first store read
AfterMiss(p) ==
  IF split_to_words(query_lower(arg[p].query)) = <<>>
    THEN Leave(p, 136, "none", <<>>)
    ELSE /\ Goto(p, "count")
         /\ UNCHANGED <<kind, arg, began, new_doc, total_documents, results,
                        readSeq, log>>

\* mutant of CacheGet: a failure of the cache read ends the search with []
CacheGetFailureReturns(p, outcome) ==
  /\ pc[p] = "cache_get"
  /\ UNCHANGED <<store, cache, calls>>
  /\ LET key == cache_key(query_lower(arg[p].query))
     IN  CASE outcome = "get_fail" -> Leave(p, 129, "none", <<>>)
           [] outcome = "loads_fail" ->
                key \in DOMAIN cache /\ Leave(p, 129, "none", <<>>)
           [] outcome = "ok" ->
                IF key \in DOMAIN cache
                  THEN Leave(p, 119, "none", pickle_loads(cache[key].data))
                  ELSE AfterMiss(p)

\* await self.redis_client.get(cache_key), then pickle.loads
\* outcome: "ok", "get_fail" (the get raises), "loads_fail" (pickle.loads raises)
CacheGet(p, outcome) ==
  /\ pc[p] = "cache_get"
  /\ UNCHANGED <<store, cache, calls>>
  /\ LET key == cache_key(query_lower(arg[p].query))
     IN  CASE outcome = "get_fail" -> AfterMiss(p)
           [] outcome = "loads_fail" -> key \in DOMAIN cache /\ AfterMiss(p)
           [] outcome = "ok" ->
                IF key \in DOMAIN cache
                  THEN Leave(p, 119, "none", pickle_loads(cache[key].data))
                  ELSE AfterMiss(p)

\* mutant of SearchExcept: the store failure is raised again
SearchExceptRaise(p) == Leave(p, 244, "OperationalError", <<>>)

\* the except clause of the store section of search: return []
SearchExcept(p) == Leave(p, 244, "none", <<>>)

\* await db.execute(total_documents_stmt)
Count(p, outcome) ==
  /\ pc[p] = "count"
  /\ UNCHANGED <<store, cache, calls>>
  /\ CASE outcome = "fail" -> SearchExcept(p)
       [] outcome = "ok" ->
            IF Cardinality(docs) = 0
              THEN Leave(p, 147, "none", <<>>)
              ELSE /\ total_documents' =
                        [total_documents EXCEPT ![p] = Cardinality(docs)]
                   /\ Goto(p, "query")
                   /\ UNCHANGED <<kind, arg, began, new_doc, results, readSeq, log>>

\* mutant of Query: the result is returned without the cache write
QueryNoCacheWrite(p, outcome) ==
  /\ pc[p] = "query"
  /\ UNCHANGED <<store, cache, calls>>
  /\ CASE outcome = "fail" -> SearchExcept(p)
       [] outcome = "ok" ->
            \E rows \in stmt(docs, index,
                             split_to_words(query_lower(arg[p].query)),
                             total_documents[p]) :
              Leave(p, 233, "none", ProcessRows(rows))

\* await db.execute(stmt), the loop over the rows, up to the cache write
Query(p, outcome) ==
  /\ pc[p] = "query"
  /\ UNCHANGED <<store, cache, calls>>
  /\ CASE outcome = "fail" -> SearchExcept(p)
       [] outcome = "ok" ->
            \E rows \in stmt(docs, index,
                             split_to_words(query_lower(arg[p].query)),
                             total_documents[p]) :
              IF ProcessRows(rows) # <<>>
                THEN /\ results' = [results EXCEPT ![p] = ProcessRows(rows)]
                     /\ readSeq' = [readSeq EXCEPT ![p] = commitSeq]
                     /\ Goto(p, "cache_set")
                     /\ UNCHANGED <<kind, arg, began, new_doc, total_documents, log>>
                ELSE Leave(p, 233, "none", <<>>)

\* await self.redis_client.set(cache_key, pickled_results, ex=ttl), its
\* failure caught; return results
CacheSet(p, outcome) ==
  /\ pc[p] = "cache_set"
  /\ cache' = IF outcome = "ok"
                THEN redis_set(cache, cache_key(query_lower(arg[p].query)),
                               [data |-> pickle_dumps(results[p]), seq |-> readSeq[p]])
                ELSE cache
  /\ Leave(p, 233, "none", results[p])
  /\ UNCHANGED <<store, calls>>

\* Redis drops an entry when its TTL (ex=cache_ttl_seconds) runs out
Expire(key) ==
  /\ key \in DOMAIN cache
  /\ cache' = redis_delete(cache, key)
  /\ UNCHANGED <<store, calls, handlers, log>>

(***************************************************************************)
(* run_migrations.                                                         *)
(***************************************************************************)
max_retries == 15

\* the messages of the exceptions command.upgrade raises in the runs
RefusedMsg ==
  <<"C", "o", "n", "n", "e", "c", "t", "i", "o", "n", " ", "r", "e", "f", "u", "s", "e", "d">>

NotConnectMsg ==
  <<"c", "o", "u", "l", "d", " ", "n", "o", "t", " ", "c", "o", "n", "n", "e", "c", "t", " ", "t", "o", " ", "s", "e", "r", "v", "e", "r">>

TimeoutMsg ==
  <<"T", "i", "m", "e", "o", "u", "t", " ", "e", "x", "p", "i", "r", "e", "d">>

ServerClosedMsg ==
  <<"s", "e", "r", "v", "e", "r", " ", "c", "l", "o", "s", "e", "d", " ", "t", "h", "e", " ", "c", "o", "n", "n", "e", "c", "t", "i", "o", "n">>

ServerMsg ==
  <<"s", "e", "r", "v", "e", "r", " ", "e", "r", "r", "o", "r">>

RevisionMsg ==
  <<"n", "o", " ", "s", "u", "c", "h", " ", "r", "e", "v", "i", "s", "i", "o", "n">>

UpgradeMsgs ==
  {RefusedMsg, NotConnectMsg, TimeoutMsg, ServerClosedMsg, ServerMsg, RevisionMsg}

\* what command.upgrade can raise: sqlalchemy's OperationalError, alembic's
\* CommandError, or an exception of another class
UpgradeErrors ==
  [class : {"OperationalError", "CommandError", "ValueError"}, msg : UpgradeMsgs]

UpgradeOutcomes == {NoException} \cup UpgradeErrors

\* sub in s
Contains(sub, s) ==
  \E i \in 0..(Len(s) - Len(sub)) : SubSeq(s, i + 1, i + Len(sub)) = sub

ConnectionRefused ==
  <<"c", "o", "n", "n", "e", "c", "t", "i", "o", "n", " ", "r", "e", "f", "u", "s", "e", "d">>

CouldNotConnect ==
  <<"c", "o", "u", "l", "d", " ", "n", "o", "t", " ", "c", "o", "n", "n", "e", "c", "t">>

Timeout == <<"t", "i", "m", "e", "o", "u", "t">>
Server == <<"s", "e", "r", "v", "e", "r">>
Closed == <<"c", "l", "o", "s", "e", "d">>

\* the test on the caught exception: isinstance(e, OperationalError) or one of
\* the phrases in error_str = str(e).lower()
is_connection_error(e) ==
  LET error_str == lower(e.msg)
  IN  \/ e.class = "OperationalError"
      \/ Contains(ConnectionRefused, error_str)
      \/ Contains(CouldNotConnect, error_str)
      \/ Contains(Timeout, error_str)
      \/ (Contains(Server, error_str) /\ Contains(Closed, error_str))

\* for attempt in range(max_retries): after n iterations the loop goes on, or
\* is exhausted and the function ends
range_next(n) == IF n < max_retries THEN "upgrade" ELSE "returned"

\* mutant of after_attempt: the last attempt sleeps and goes on like the others
after_attemptNoLimit(attempt, e) ==
  IF e = NoException THEN "returned"
  ELSE IF e.class \in {"OperationalError", "CommandError"}
    THEN IF is_connection_error(e)
           THEN range_next(attempt + 1)
           ELSE "reraised"
  ELSE "reraised"

\* where iteration attempt (from 0) goes when command.upgrade ended with e:
\* return, sleep and the next iteration, RuntimeError from e, or e re-raised
\* by except (OperationalError, CommandError) or by except Exception
after_attempt(attempt, e) ==
  IF e = NoException THEN "returned"
  ELSE IF e.class \in {"OperationalError", "CommandError"}
    THEN IF is_connection_error(e)
           THEN IF attempt < max_retries - 1
                  THEN range_next(attempt + 1)
                  ELSE "raised"
           ELSE "reraised"
  ELSE "reraised"

\* one iteration of the loop: command.upgrade ends with e
UpgradeAttempt(e) ==
  /\ migration.pc = "upgrade"
  /\ migration' = [pc |-> after_attempt(migration.attempt, e),
                   attempt |-> migration.attempt + 1,
                   e |-> e]
  /\ UNCHANGED <<store, cache, calls, handlers, log>>

(***************************************************************************)
(* The specifications.                                                     *)
(***************************************************************************)
\* The store is durable: the service starts on an empty store or on one that
\* holds a document indexed by an earlier run.
StoredDoc == Document(1, "d1", ShortText)

InitStores ==
  { [docs |-> {}, index |-> {}, nextId |-> 1],
    [docs |-> {StoredDoc},
     index |-> index_entries(StoredDoc.content, StoredDoc.id),
     nextId |-> 2] }

Init ==
  /\ \E s \in InitStores :
       /\ docs = s.docs
       /\ index = s.index
       /\ nextId = s.nextId
  /\ cache = EmptyCache
  /\ commitSeq = 0
  /\ calls = 0
  /\ pc = [p \in Procs |-> "idle"]
  /\ kind = [p \in Procs |-> "none"]
  /\ arg = [p \in Procs |-> NoArg]
  /\ began = [p \in Procs |-> 0]
  /\ new_doc = [p \in Procs |-> NoDoc]
  /\ total_documents = [p \in Procs |-> 0]
  /\ results = [p \in Procs |-> <<>>]
  /\ readSeq = [p \in Procs |-> 0]
  /\ log = <<>>
  /\ migration = Migrated

Outcomes == {"ok", "fail"}
GetOutcomes == {"ok", "get_fail", "loads_fail"}

\* concurrent handlers; the store and the cache may fail at every await
Next ==
  \/ \E p \in Procs, kc \in AddCalls, n \in Names :
       calls < MaxCalls /\ AddStart(p, kc[1], n, kc[2]) /\ UNCHANGED migration
  \/ \E p \in Procs, o \in Outcomes : CommitDoc(p, o) /\ UNCHANGED migration
  \/ \E p \in Procs, o \in Outcomes : Refresh(p, o) /\ UNCHANGED migration
  \/ \E p \in Procs, o \in Outcomes : CommitIndex(p, o) /\ UNCHANGED migration
  \/ \E p \in Procs, o \in Outcomes : Flush(p, o) /\ UNCHANGED migration
  \/ \E p \in Procs, q \in Queries :
       calls < MaxCalls /\ SearchStart(p, q) /\ UNCHANGED migration
  \/ \E p \in Procs, o \in GetOutcomes : CacheGet(p, o) /\ UNCHANGED migration
  \/ \E p \in Procs, o \in Outcomes : Count(p, o) /\ UNCHANGED migration
  \/ \E p \in Procs, o \in Outcomes : Query(p, o) /\ UNCHANGED migration
  \/ \E p \in Procs, o \in Outcomes : CacheSet(p, o) /\ UNCHANGED migration
  \/ \E key \in DOMAIN cache : Expire(key) /\ UNCHANGED migration

Spec == Init /\ [][Next]_vars

\* concurrent handlers and a cache that never fails
NextCacheOk ==
  \/ \E p \in Procs, kc \in AddCalls, n \in Names :
       calls < MaxCalls /\ AddStart(p, kc[1], n, kc[2]) /\ UNCHANGED migration
  \/ \E p \in Procs, o \in Outcomes : CommitDoc(p, o) /\ UNCHANGED migration
  \/ \E p \in Procs, o \in Outcomes : Refresh(p, o) /\ UNCHANGED migration
  \/ \E p \in Procs, o \in Outcomes : CommitIndex(p, o) /\ UNCHANGED migration
  \/ \E p \in Procs, o \in {"ok"} : Flush(p, o) /\ UNCHANGED migration
  \/ \E p \in Procs, q \in Queries :
       calls < MaxCalls /\ SearchStart(p, q) /\ UNCHANGED migration
  \/ \E p \in Procs, o \in {"ok"} : CacheGet(p, o) /\ UNCHANGED migration
  \/ \E p \in Procs, o \in Outcomes : Count(p, o) /\ UNCHANGED migration
  \/ \E p \in Procs, o \in Outcomes : Query(p, o) /\ UNCHANGED migration
  \/ \E p \in Procs, o \in {"ok"} : CacheSet(p, o) /\ UNCHANGED migration
  \/ \E key \in DOMAIN cache : Expire(key) /\ UNCHANGED migration

SpecCacheOk == Init /\ [][NextCacheOk]_vars

\* a sequential run: one call at a time, a cache that never fails and whose
\* entries do not expire during the run
NextSeq ==
  \/ \E p \in Procs, kc \in AddCalls, n \in Names :
       calls < MaxSeqCalls /\ AllReturned /\ AddStart(p, kc[1], n, kc[2]) /\ UNCHANGED migration
  \/ \E p \in Procs, o \in Outcomes : CommitDoc(p, o) /\ UNCHANGED migration
  \/ \E p \in Procs, o \in Outcomes : Refresh(p, o) /\ UNCHANGED migration
  \/ \E p \in Procs, o \in Outcomes : CommitIndex(p, o) /\ UNCHANGED migration
  \/ \E p \in Procs, o \in {"ok"} : Flush(p, o) /\ UNCHANGED migration
  \/ \E p \in Procs, q \in Queries :
       calls < MaxSeqCalls /\ AllReturned /\ SearchStart(p, q) /\ UNCHANGED migration
  \/ \E p \in Procs, o \in {"ok"} : CacheGet(p, o) /\ UNCHANGED migration
  \/ \E p \in Procs, o \in Outcomes : Count(p, o) /\ UNCHANGED migration
  \/ \E p \in Procs, o \in Outcomes : Query(p, o) /\ UNCHANGED migration
  \/ \E p \in Procs, o \in {"ok"} : CacheSet(p, o) /\ UNCHANGED migration

SpecSeq == Init /\ [][NextSeq]_vars

\* Runs that only search, one call at a time, on a store that holds the two
\* documents a and b, or the large store of more than Limit documents (or a
\* part of it).  A failing cache read makes a search compute again.
StoreOf(ds) ==
  [docs |-> ds,
   index |-> UNION {index_entries(d.content, d.id) : d \in ds},
   nextId |-> Cardinality(ds) + 1]

CatDogDocs == {Document(1, "a", CatText), Document(2, "b", DogText)}

ScoreStores ==
  { StoreOf(CatDogDocs) } \cup
  { StoreOf({Document(i + 1, PoolName(i), PoolText(i)) : i \in 0..n}) :
      n \in PoolSizes }

InitScore ==
  /\ \E s \in ScoreStores :
       /\ docs = s.docs
       /\ index = s.index
       /\ nextId = s.nextId
  /\ cache = EmptyCache
  /\ commitSeq = 0
  /\ calls = 0
  /\ pc = [p \in Procs |-> "idle"]
  /\ kind = [p \in Procs |-> "none"]
  /\ arg = [p \in Procs |-> NoArg]
  /\ began = [p \in Procs |-> 0]
  /\ new_doc = [p \in Procs |-> NoDoc]
  /\ total_documents = [p \in Procs |-> 0]
  /\ results = [p \in Procs |-> <<>>]
  /\ readSeq = [p \in Procs |-> 0]
  /\ log = <<>>
  /\ migration = Migrated

NextScore ==
  \/ \E p \in Procs, q \in ScoreQueries :
       calls < MaxSeqCalls /\ AllReturned /\ SearchStart(p, q) /\ UNCHANGED migration
  \/ \E p \in Procs, o \in GetOutcomes : CacheGet(p, o) /\ UNCHANGED migration
  \/ \E p \in Procs, o \in {"ok"} : Count(p, o) /\ UNCHANGED migration
  \/ \E p \in Procs, o \in {"ok"} : Query(p, o) /\ UNCHANGED migration
  \/ \E p \in Procs, o \in Outcomes : CacheSet(p, o) /\ UNCHANGED migration

SpecScore == InitScore /\ [][NextScore]_vars

\* Runs of a direct call of split_to_words, and of a second call on the
\* tokens the first one returned, joined by a space.
NextWords ==
  \/ \E p \in Procs, text \in SplitTexts : calls = 0 /\ SplitCall(p, text) /\ UNCHANGED migration
  \/ \E p \in Procs : calls = 1 /\ SplitCall(p, join(log[1].results)) /\ UNCHANGED migration

SpecWords == Init /\ [][NextWords]_vars

\* run_migrations on a fresh deployment, before anything is served.  The
\* function runs alone in an executor thread; every command.upgrade call and
\* every time.sleep comes back, so an iteration that can run does run.
InitMig ==
  /\ docs = {}
  /\ index = {}
  /\ nextId = 1
  /\ cache = EmptyCache
  /\ commitSeq = 0
  /\ calls = 0
  /\ pc = [p \in Procs |-> "idle"]
  /\ kind = [p \in Procs |-> "none"]
  /\ arg = [p \in Procs |-> NoArg]
  /\ began = [p \in Procs |-> 0]
  /\ new_doc = [p \in Procs |-> NoDoc]
  /\ total_documents = [p \in Procs |-> 0]
  /\ results = [p \in Procs |-> <<>>]
  /\ readSeq = [p \in Procs |-> 0]
  /\ log = <<>>
  /\ migration = [pc |-> "upgrade", attempt |-> 0, e |-> NoException]

NextMig == \E e \in UpgradeOutcomes : UpgradeAttempt(e)

SpecMig == InitMig /\ [][NextMig]_vars /\ WF_vars(NextMig)

(***************************************************************************)
(* Properties.                                                             *)
(***************************************************************************)
IsAdd(c) == c.kind \in {"add", "upload"}

\* the index rows of document d
RowsOf(d) == {e \in index : e.doc_id = d.id}

\* the number of occurrences of word w in the token sequence words
Occurrences(words, w) == Cardinality({i \in DOMAIN words : words[i] = w})

\* C1: in every reachable state of the store, every Document row has its
\* complete set of IndexEntry rows, one row per distinct token of its content
\* (never zero rows, never some of them).
C1_EveryDocumentIndexed ==
  \A d \in docs : {e.word : e \in RowsOf(d)} = Range(split_to_words(d.content))

\* C2: with a cache that never fails, once every call has returned no cache
\* entry holds a result computed from a store state older than the last
\* committed ingest.
C2_NoStaleEntry ==
  AllReturned => \A key \in DOMAIN cache : cache[key].seq >= commitSeq

\* C3: an add_document that raised a store failure leaves the store as it was:
\* no Document it created and no IndexEntry of it remains.
C3_FailedAddLeavesNothing ==
  \A i \in DOMAIN log :
    (IsAdd(log[i]) /\ log[i].exc = "OperationalError") =>
      /\ \A d \in docs : d.id # log[i].new_doc.id
      /\ \A e \in index : e.doc_id # log[i].new_doc.id

\* C4: when add_document returns None (nothing to index), upload_file answers
\* 400, never 500.
C4_NotIndexedIs400 ==
  \A i \in DOMAIN log :
    (log[i].kind = "upload" /\ log[i].site = 64) => log[i].status = 400

\* add_document was called with a content that has words
Indexable(c) == IsAdd(c) /\ c.site # 0 /\ split_to_words(c.content) # <<>>

\* of two returned calls i < j, the later one began before the earlier returned
Concurrent(i, j) == i < j /\ log[j].began < i

\* C5: of two concurrent add_document calls with the same new name and
\* contents with words, neither meeting a store failure, exactly one returns
\* its Document and the other raises the duplicate-name error; exactly one
\* Document with that name exists afterwards.
C5_OneWinner ==
  \A i, j \in DOMAIN log :
    ( /\ Concurrent(i, j)
      /\ Indexable(log[i]) /\ Indexable(log[j])
      /\ log[i].name = log[j].name
      /\ log[i].exc # "OperationalError" /\ log[j].exc # "OperationalError"
      /\ \A d \in docs : d.name = log[i].name =>
                           d.id \in {log[i].new_doc.id, log[j].new_doc.id} )
    => /\ \/ log[i].site = 96 /\ log[j].exc = "IntegrityError"
          \/ log[j].site = 96 /\ log[i].exc = "IntegrityError"
       /\ Cardinality({d \in docs : d.name = log[i].name}) = 1

C5_Witness ==
  \E i, j \in DOMAIN log :
    /\ Concurrent(i, j)
    /\ log[i].name = log[j].name
    /\ log[i].exc = "IntegrityError" /\ log[j].site = 96
    /\ log[j].new_doc \in docs

\* a call has just returned: its record is the last of the log
Returned == Len(log') = Len(log) + 1
Last == log'[Len(log')]

NamesUnique == \A d1, d2 \in docs : d1.name = d2.name => d1 = d2

\* the duplicate-name error is IntegrityError, raised before anything is
\* created, and upload_file answers it with 409; a store failure is answered
\* with 500
DuplicateTold ==
  \A i \in DOMAIN log :
    /\ log[i].exc = "IntegrityError" =>
         /\ log[i].site = 101 /\ log[i].new_doc = NoDoc
         /\ log[i].kind = "upload" => log[i].status = 409
    /\ (log[i].exc = "OperationalError" /\ log[i].kind = "upload") =>
         log[i].status = 500

\* a commit of a Document whose name is in the store fails and changes nothing
DuplicateFrame ==
  \A p \in Procs :
    ( /\ pc[p] = "commit_doc" /\ pc'[p] # "commit_doc"
      /\ \E d \in docs : d.name = arg[p].name )
    => /\ Returned
       /\ Last.exc \in {"IntegrityError", "OperationalError"}
       /\ UNCHANGED <<docs, index, cache>>

\* C6: document names are unique in every reachable state; an add_document
\* whose name is in the store fails, with the duplicate-name error unless the
\* store itself fails; upload_file answers the duplicate-name error with 409
\* and not 500; the existing Document, the IndexEntry rows and the cache are
\* left unchanged.
C6_DuplicateRejected ==
  [][NamesUnique' /\ DuplicateTold' /\ DuplicateFrame]_vars

C6_Witness ==
  \E i \in DOMAIN log :
    /\ log[i].kind = "upload"
    /\ log[i].exc = "IntegrityError"
    /\ log[i].status = 409
    /\ \E d \in docs : d.name = log[i].name

\* C7: add_document with a content without words returns None (line 64)
\* without raising, never reaches a store write or the cache flush, and leaves
\* the Documents, the IndexEntry rows and the cache as they are: it creates no
\* Document with that name.
C7_EmptyContentNoOp ==
  [][ /\ \A p \in Procs :
           (InFlight(p) /\ kind[p] # "search")' =>
             split_to_words(arg'[p].content) # <<>>
      /\ \A i \in DOMAIN log' :
           ( /\ IsAdd(log'[i]) /\ log'[i].site # 0
             /\ split_to_words(log'[i].content) = <<>> )
           => /\ log'[i].site = 64
              /\ log'[i].exc = "none"
              /\ log'[i].new_doc = NoDoc
      /\ (Returned /\ Last.site = 64) =>
           UNCHANGED <<docs, index, nextId, commitSeq, cache>>
    ]_vars

C7_Witness ==
  \E i, j \in DOMAIN log :
    /\ log[i].kind = "add" /\ log[i].content = EmptyText /\ log[i].site = 64
    /\ log[j].kind = "add" /\ log[j].content = BlankText /\ log[j].site = 64
    /\ \A d \in docs : d.name # log[i].name

\* C8: after a successful add_document the new document has one IndexEntry row
\* per distinct token, each with the number of occurrences of the token in the
\* tokenized content, and the counts sum to the document's word_count.
C8_CountsMatch ==
  \A i \in DOMAIN log :
    (IsAdd(log[i]) /\ log[i].site = 96) =>
      LET d == log[i].new_doc
          words == split_to_words(d.content)
          rows == RowsOf(d)
      IN  /\ d \in docs
          /\ {e.word : e \in rows} = Range(words)
          /\ Cardinality(rows) = Cardinality(Range(words))
          /\ \A e \in rows : e.count = Occurrences(words, e.word)
          /\ SumOver(rows, [e \in rows |-> e.count]) = d.word_count

C8_Witness ==
  \E i \in DOMAIN log :
    /\ IsAdd(log[i]) /\ log[i].site = 96
    /\ log[i].content = ShortText
    /\ \E e \in RowsOf(log[i].new_doc) : e.count = 2

LastCall == log[Len(log)]

\* the cache holds the list the search c returned, under the key of its query
Populated(c) ==
  LET key == cache_key(query_lower(c.query))
  IN  key \in DOMAIN cache /\ pickle_loads(cache[key].data) = c.results

\* the lists the scoring of query computes from the store as it is now
FreshResults(query) ==
  { ProcessRows(rows) :
      rows \in stmt(docs, index, split_to_words(query_lower(query)),
                    Cardinality(docs)) }

\* a successful add_document has returned: the cache is empty
FlushedAfterAdd ==
  (AllReturned /\ log # <<>> /\ IsAdd(LastCall) /\ LastCall.site = 96)
    => cache = EmptyCache

\* the search that follows a successful add_document is no cache hit, and what
\* it computes is the scoring of the store that holds the new document
NextSearchRecomputes ==
  \A i \in DOMAIN log :
    (i > 1 /\ IsAdd(log[i - 1]) /\ log[i - 1].site = 96 /\ log[i].kind = "search")
    => /\ log[i].site # 119
       /\ (AllReturned /\ i = Len(log) /\ log[i].site = 233) =>
            /\ log[i - 1].new_doc \in docs
            /\ log[i].results \in FreshResults(log[i].query)

\* C9 as claimed: in a sequential run with a working cache, every search that
\* computes its result from the store leaves it in the cache under its query;
\* a successful add_document empties the cache; the next search recomputes.
C9_AsClaimed ==
  /\ (AllReturned /\ log # <<>> /\ LastCall.kind = "search" /\ LastCall.site = 233)
       => Populated(LastCall)
  /\ FlushedAfterAdd
  /\ NextSearchRecomputes

\* C9, amended: in a sequential run with a working cache, a search that
\* computes a non-empty result from the store leaves it in the cache under its
\* query (an empty result is not cached); a successful add_document empties
\* the cache; the next search recomputes against the store with the new
\* document.
C9_CacheCorrectness ==
  /\ ( /\ AllReturned /\ log # <<>>
       /\ LastCall.kind = "search" /\ LastCall.site = 233
       /\ LastCall.results # <<>> )
       => Populated(LastCall)
  /\ FlushedAfterAdd
  /\ NextSearchRecomputes

C9_Witness ==
  /\ AllReturned
  /\ Len(log) = 3
  /\ log[1].kind = "search" /\ log[1].site = 233 /\ log[1].results # <<>>
  /\ IsAdd(log[2]) /\ log[2].site = 96
  /\ log[3].kind = "search" /\ log[3].site = 233
  /\ log[3].query = log[1].query
  /\ log[3].results # log[1].results
  /\ Populated(log[3])

SearchSites == {111, 119, 136, 147, 233, 244}

\* C10: search never raises: whatever the store and the cache do, it returns
\* a list; a store failure at the count or at the scoring query gives the
\* empty list, and that search has written nothing to the cache.
C10_SearchNeverRaises ==
  [][ /\ \A i \in DOMAIN log' :
           log'[i].kind = "search" =>
             /\ log'[i].exc = "none"
             /\ log'[i].site \in SearchSites
             /\ DOMAIN log'[i].results = 1..Len(log'[i].results)
             /\ log'[i].site = 244 => log'[i].results = <<>>
      /\ \A p \in Procs :
           (kind[p] = "search" /\ pc[p] \in {"cache_get", "count", "query"}
              /\ pc'[p] # pc[p]) => cache' = cache
      /\ (Returned /\ Last.kind = "search" /\ Last.site = 244) =>
           \E p \in Procs : pc[p] \in {"count", "query"} /\ pc'[p] = "idle"
    ]_vars

C10_Witness ==
  \E i, j \in DOMAIN log :
    /\ log[i].kind = "search" /\ log[i].site = 244 /\ log[i].results = <<>>
    /\ log[j].kind = "search" /\ log[j].site = 233 /\ log[j].results # <<>>
    /\ cache = EmptyCache

\* a query that is empty or made of whitespace only
Blank(query) == \A i \in DOMAIN query : query[i] \in SpaceChars

\* C11: search with an empty or whitespace-only query returns the empty list
\* at once: the call is never suspended at an await (it reads neither the
\* cache nor the store and writes nothing to the cache), and the step leaves
\* the cache and the store as they are.
C11_BlankQueryShortCircuits ==
  [][ /\ \A p \in Procs :
           (InFlight(p) /\ kind[p] = "search")' => ~Blank(arg'[p].query)
      /\ \A i \in DOMAIN log' :
           (log'[i].kind = "search" /\ Blank(log'[i].query)) =>
             /\ log'[i].site = 111
             /\ log'[i].exc = "none"
             /\ log'[i].results = <<>>
      /\ (Returned /\ Last.kind = "search" /\ Blank(Last.query)) =>
           UNCHANGED <<docs, index, nextId, commitSeq, cache, pc>>
    ]_vars

C11_Witness ==
  \E i, j \in DOMAIN log :
    /\ log[i].kind = "search" /\ log[i].query = <<>> /\ log[i].site = 111
    /\ log[j].kind = "search" /\ log[j].query = <<" ", " ">> /\ log[j].site = 111
    /\ cache = EmptyCache

\* the documents that have an index row for one of the words
Matching(words) ==
  {d \in docs : \E e \in index : e.doc_id = d.id /\ e.word \in Range(words)}

ResultNames(res) == {res[k].name : k \in DOMAIN res}

\* C12: every search that computes its result from the store, also next to
\* concurrent add_document calls, returns every document that has one of the
\* query words at the moment of the scoring query (the store never holds more
\* than 10 documents here, so nothing is truncated): none is dropped for a
\* negative weight.
C12_MatchingIncluded ==
  [][ \A p \in Procs :
        ( /\ pc[p] = "query" /\ pc'[p] # "query"
          /\ ~(Returned /\ Last.site = 244) )
        => LET computed == IF pc'[p] = "cache_set" THEN results'[p]
                           ELSE Last.results
           IN  {d.name : d \in Matching(split_to_words(query_lower(arg[p].query)))}
                 \subseteq ResultNames(computed)
    ]_vars

\* a search that computed its result from the store
Computed(c) == c.kind = "search" /\ c.site = 233

QueryWords(c) == split_to_words(query_lower(c.query))

\* the matching documents of the call's query with their scores, in the store
\* as it is
Scored(c) == GroupRows(docs, index, QueryWords(c), Cardinality(docs))

\* C13: for a fixed store, the result of a computed search has at most 10
\* entries, one per document, ordered by score descending, and they are the
\* highest-scoring matching documents: as many as there are, up to 10, and no
\* document left out has a higher score than one returned.
C13_TopTen ==
  \A i \in DOMAIN log :
    Computed(log[i]) =>
      LET res == log[i].results
          all == Scored(log[i])
      IN  /\ Len(res) <= 10
          /\ \A j, k \in DOMAIN res : j < k => res[j].score >= res[k].score
          /\ \A j, k \in DOMAIN res : j # k => res[j].name # res[k].name
          /\ \A k \in DOMAIN res :
               \E g \in all : g.doc_name = res[k].name /\ g.total_score = res[k].score
          /\ Len(res) = IF Cardinality(all) > 10 THEN 10 ELSE Cardinality(all)
          /\ \A g \in all :
               g.doc_name \notin ResultNames(res) =>
                 \A k \in DOMAIN res : res[k].score >= g.total_score

C13_Witness ==
  \E i \in DOMAIN log :
    /\ Computed(log[i])
    /\ Cardinality(Scored(log[i])) > 10
    /\ Len(log[i].results) = 10
    /\ log[i].results[1].score > log[i].results[10].score
    /\ \E g \in Scored(log[i]) :
         /\ g.doc_name \notin ResultNames(log[i].results)
         /\ g.total_score < log[i].results[10].score

\* C14: for a fixed store, two computations of search(q) that do not read the
\* cache return the same list in the same order, also when matching documents
\* have equal scores and when documents tie at the truncation boundary.
C14_Deterministic ==
  \A i, j \in DOMAIN log :
    (Computed(log[i]) /\ Computed(log[j]) /\ log[i].query = log[j].query)
      => log[i].results = log[j].results

\* the query words that every document of the store has (df = N)
Universal(words) ==
  {w \in Range(words) :
     \A d \in docs : \E e \in index : e.doc_id = d.id /\ e.word = w}

SeqOf(S) == CHOOSE f \in [1..Cardinality(S) -> S] : \A x \in S : \E k \in DOMAIN f : f[k] = x

\* C15: in the store of a = 'the cat sat on the mat' and b = 'the dog sat on
\* the log', search('cat') returns one entry, for a, with a positive score;
\* search('sat') returns a and b, each with score 0.  In every store, a
\* universal query word adds nothing to a score, and a document whose only
\* matching words are universal is returned, with score 0.
C15_UniversalWordScoresZero ==
  \A i \in DOMAIN log :
    Computed(log[i]) =>
      LET res == log[i].results
          words == QueryWords(log[i])
          others == SeqOf(Range(words) \ Universal(words))
      IN  /\ (docs = CatDogDocs
                /\ log[i].query = <<"c", "a", "t">>) =>
                /\ Len(res) = 1
                /\ res[1].name = "a"
                /\ res[1].score > 0
          /\ (docs = CatDogDocs
                /\ log[i].query = <<"s", "a", "t">>) =>
                /\ ResultNames(res) = {"a", "b"}
                /\ Len(res) = 2
                /\ res[1].score = 0 /\ res[2].score = 0
          /\ \A k \in DOMAIN res :
               \E d \in docs :
                 /\ d.name = res[k].name
                 /\ res[k].score = score_expr(d, docs, index, others, Cardinality(docs))
          /\ (Universal(words) # {} /\ Cardinality(docs) <= 10) =>
               \A d \in docs :
                 [name |-> d.name, score |-> 0] \in Range(res)
                   <=> d \notin Matching(others)

C15_Witness ==
  /\ docs = CatDogDocs
  /\ \E i, j, k \in DOMAIN log :
       /\ Computed(log[i]) /\ log[i].query = <<"c", "a", "t">>
       /\ Len(log[i].results) = 1
       /\ Computed(log[j]) /\ log[j].query = <<"s", "a", "t">>
       /\ Len(log[j].results) = 2
       /\ Computed(log[k]) /\ log[k].query = <<"c", "a", "t", " ", "s", "a", "t">>
       /\ Len(log[k].results) = 2
       /\ log[k].results[1].score = log[i].results[1].score
       /\ log[k].results[2] = [name |-> "b", score |-> 0]

\* the natural logarithm of small integers, in millionths
LnMicro(n) ==
  CASE n = 1 -> 0
    [] n = 2 -> 693147
    [] n = 3 -> 1098612
    [] n = 4 -> 1386294
    [] n = 5 -> 1609438
    [] n = 6 -> 1791759
    [] n = 7 -> 1945910
    [] n = 8 -> 2079442
    [] n = 9 -> 2197225
    [] n = 10 -> 2302585
    [] n = 11 -> 2397895
    [] n = 12 -> 2484907
    [] n = 13 -> 2564949

\* the number of documents that contain word w
DocFreq(w) == Cardinality({e.doc_id : e \in {x \in index : x.word = w}})

\* sum over the distinct query words present in d of
\* (count / max(word_count, 1)) * ln((N + 1) / (df + 1)), in the unit of the
\* model's scores
LnScore(d, words) ==
  LET present == {e \in index : e.doc_id = d.id /\ e.word \in Range(words)}
  IN  SumOver(present,
        [e \in present |->
           ((e.count * ScoreDen) \div (IF d.word_count > 1 THEN d.word_count ELSE 1))
             * (LnMicro(Cardinality(docs) + 1) - LnMicro(DocFreq(e.word) + 1))])

\* C16: the score of every document a computed search returns is the sum, over
\* the distinct query words present in the document, of
\* (count / max(word_count, 1)) * ln((N + 1) / (df + 1)) with the natural
\* logarithm; a repeated query word counts once.
C16_ScoreIsTfLnIdf ==
  \A i \in DOMAIN log :
    Computed(log[i]) =>
      \A k \in DOMAIN log[i].results :
        \E d \in docs :
          /\ d.name = log[i].results[k].name
          /\ log[i].results[k].score = LnScore(d, QueryWords(log[i]))

\* C17: whatever flushdb does after the commits, add_document returns the
\* persisted Document and raises nothing (upload_file answers 201), and the
\* Document and its IndexEntry rows stay in the store; when flushdb fails the
\* cache keeps its entries.
C17_FlushFailureTolerated ==
  [][ \A p \in Procs :
        (pc[p] = "flush" /\ pc'[p] # "flush") =>
          /\ Returned
          /\ Last.site = 96 /\ Last.exc = "none"
          /\ Last.kind = "upload" => Last.status = 201
          /\ Last.new_doc = new_doc[p]
          /\ Last.new_doc \in docs'
          /\ index_entries(Last.content, Last.new_doc.id) \subseteq index'
          /\ UNCHANGED <<docs, index, nextId>>
          /\ cache' \in {cache, EmptyCache}
    ]_vars

\* a search filled the cache and returned, then add_document ran and returned
\* its Document, and the cache still has the entry: flushdb failed
C17_Witness ==
  /\ AllReturned
  /\ Len(log) = 2
  /\ Computed(log[1]) /\ log[1].results # <<>>
  /\ IsAdd(log[2]) /\ log[2].began = 1
  /\ log[2].site = 96 /\ log[2].exc = "none"
  /\ log[2].new_doc \in docs
  /\ index_entries(log[2].content, log[2].new_doc.id) \subseteq index
  /\ Populated(log[1])

\* letters (lowercased), digits and the underscore
TokenChars == Range(LowerChars) \cup Range(DigitChars) \cup {"_"}

\* the maximal runs of token characters of text t, from left to right
Runs(t) ==
  LET starts == {i \in DOMAIN t :
                   t[i] \in TokenChars /\ (i = 1 \/ t[i - 1] \notin TokenChars)}
      endOf(i) == CHOOSE j \in i..Len(t) :
                    /\ \A k \in i..j : t[k] \in TokenChars
                    /\ (j = Len(t) \/ t[j + 1] \notin TokenChars)
      nth(n) == CHOOSE i \in starts : Cardinality({j \in starts : j <= i}) = n
  IN  [n \in 1..Cardinality(starts) |-> SubSeq(t, nth(n), endOf(nth(n)))]

FromCacheWrite == \E p \in Procs : pc[p] = "cache_set" /\ pc'[p] = "idle"

\* a search reaches its cache write from the scoring query and the scoring
\* query from the count; the cache write is one attempt, for the key of the
\* normalized query and with the list the search returns, and the search
\* returns right after it
ReadsThenOneWrite ==
  \A p \in Procs :
    /\ (pc'[p] = "query" /\ pc[p] # "query") => pc[p] = "count"
    /\ (pc'[p] = "cache_set" /\ pc[p] # "cache_set") => pc[p] = "query"
    /\ (pc[p] = "cache_set" /\ pc'[p] # "cache_set") =>
         /\ Returned /\ Computed(Last)
         /\ UNCHANGED <<docs, index>>
         /\ \/ cache' = cache
            \/ cache' = redis_set(cache, cache_key(strip(lower(Last.query))),
                                  [data |-> pickle_dumps(Last.results),
                                   seq |-> readSeq[p]])

\* C19 as claimed: every search that misses the cache and completes the scoring
\* without a store failure attempts exactly one cache write for the normalized
\* query before it returns, whatever the result is, after all its store reads.
C19_AsClaimed ==
  [][ /\ (Returned /\ Computed(Last)) => FromCacheWrite
      /\ ReadsThenOneWrite
    ]_vars

\* C19, amended: a search that misses the cache and completes the scoring
\* without a store failure attempts exactly one cache write for the normalized
\* query before it returns when its result is not empty, and none when it is
\* empty; its store reads all precede the cache write.
C19_WriteIfNonEmpty ==
  [][ /\ (Returned /\ Computed(Last)) =>
           /\ FromCacheWrite <=> Last.results # <<>>
           /\ ~FromCacheWrite => cache' = cache
      /\ ReadsThenOneWrite
    ]_vars

C19_Witness ==
  \E i, j \in DOMAIN log :
    /\ Computed(log[i]) /\ log[i].results = <<>> /\ log[i].query = <<"c">>
    /\ Computed(log[j]) /\ log[j].results # <<>>
    /\ Populated(log[j])
    /\ DOMAIN cache = {cache_key(strip(lower(log[j].query)))}

\* text t without its leading and trailing whitespace
RECURSIVE Trim(_)
Trim(t) ==
  IF t = <<>> THEN t
  ELSE IF Head(t) \in SpaceChars THEN Trim(Tail(t))
  ELSE IF t[Len(t)] \in SpaceChars THEN Trim(SubSeq(t, 1, Len(t) - 1))
  ELSE t

\* the cache key of the normalized (lowercased, trimmed) query
NormalizedKey(query) == <<"search:">> \o Trim(lower(query))

\* C20: a search that hits the cache returns the list stored under the key of
\* its normalized query, straight from the cache read, and changes neither the
\* cache nor the store; every cache key is the key of a normalized query, so
\* queries that differ in letter case or surrounding whitespace share an entry.
C20_CacheHit ==
  [][ /\ (Returned /\ Last.kind = "search" /\ Last.site = 119) =>
           /\ NormalizedKey(Last.query) \in DOMAIN cache
           /\ Last.results = pickle_loads(cache[NormalizedKey(Last.query)].data)
           /\ \E p \in Procs : pc[p] = "cache_get" /\ pc'[p] = "idle"
           /\ UNCHANGED <<cache, docs, index, nextId, commitSeq>>
      /\ \A key \in DOMAIN cache' \ DOMAIN cache :
           \E p \in Procs :
             /\ pc[p] = "cache_set" /\ pc'[p] = "idle"
             /\ key = NormalizedKey(arg[p].query)
    ]_vars

C20_Witness ==
  /\ Len(log) = 2
  /\ Computed(log[1]) /\ log[1].query = <<"b">> /\ log[1].results # <<>>
  /\ log[2].kind = "search" /\ log[2].query = <<" ", "B", " ">>
  /\ log[2].began = 1
  /\ log[2].site = 119
  /\ log[2].results = log[1].results
  /\ DOMAIN cache = {NormalizedKey(<<"b">>)}

\* C21: on a store that does not change, with cache reads, deserializations
\* and cache writes that may fail, a search either returns what an earlier
\* search computed and cached, or computes and returns one of the results a
\* search with an empty, working cache returns on that store; it never raises.
C21_CacheFailureIsMiss ==
  \A i \in DOMAIN log :
    log[i].kind = "search" =>
      /\ log[i].exc = "none"
      /\ log[i].site \in {119, 233}
      /\ log[i].site = 233 => log[i].results \in FreshResults(log[i].query)
      /\ log[i].site = 119 =>
           \E j \in 1..(i - 1) :
             /\ Computed(log[j])
             /\ NormalizedKey(log[j].query) = NormalizedKey(log[i].query)
             /\ log[j].results = log[i].results

\* the first search computed and cached its result and the second one hit it;
\* the third computed again although the entry was there (its cache read or
\* the deserialization failed) and the entry still is the first one's (the
\* cache write of the third failed)
C21_Witness ==
  /\ AllReturned
  /\ Len(log) = 3
  /\ \A i \in 1..3 : log[i].query = log[1].query
  /\ Computed(log[1])
  /\ log[2].site = 119
  /\ Computed(log[3])
  /\ log[3].results # log[1].results
  /\ Populated(log[1])

\* C22: of two concurrent add_document calls with different new names and
\* contents with words, neither meeting a store failure, both return their
\* Document, the two Documents differ, and each has exactly the IndexEntry rows
\* of its own content under its own id.
C22_DifferentNamesBothSucceed ==
  \A i, j \in DOMAIN log :
    ( /\ Concurrent(i, j)
      /\ Indexable(log[i]) /\ Indexable(log[j])
      /\ log[i].name # log[j].name
      /\ log[i].exc # "OperationalError" /\ log[j].exc # "OperationalError"
      /\ \A d \in docs : d.name \in {log[i].name, log[j].name} =>
                           d.id \in {log[i].new_doc.id, log[j].new_doc.id} )
    => /\ log[i].site = 96 /\ log[j].site = 96
       /\ log[i].new_doc.id # log[j].new_doc.id
       /\ \A c \in {log[i], log[j]} :
            /\ c.new_doc \in docs
            /\ c.new_doc.name = c.name /\ c.new_doc.content = c.content
            /\ RowsOf(c.new_doc) = index_entries(c.content, c.new_doc.id)
            /\ \A e \in RowsOf(c.new_doc) :
                 e.count = Occurrences(split_to_words(c.content), e.word)
       /\ Cardinality(index) =
            Cardinality(Range(split_to_words(log[i].content)))
              + Cardinality(Range(split_to_words(log[j].content)))

\* both calls committed their Document before either committed its index rows
C22_Witness ==
  \E i, j \in DOMAIN log :
    /\ Concurrent(i, j)
    /\ log[i].name # log[j].name
    /\ log[i].site = 96 /\ log[j].site = 96
    /\ log[i].content = ShortText /\ log[j].content = LongText
    /\ log[i].new_doc.id > log[j].new_doc.id
    /\ RowsOf(log[i].new_doc) = index_entries(ShortText, log[i].new_doc.id)
    /\ RowsOf(log[j].new_doc) = index_entries(LongText, log[j].new_doc.id)

\* C23: no step removes or changes a Document or an IndexEntry row; a Document
\* that has its rows keeps exactly these rows; no new Document takes the id of
\* an existing one; no step of a search changes the store.
C23_CommittedRowsStay ==
  [][ /\ docs \subseteq docs'
      /\ index \subseteq index'
      /\ \A d \in docs' \ docs : \A x \in docs : x.id # d.id
      /\ \A d \in docs :
           RowsOf(d) # {} => {e \in index' : e.doc_id = d.id} = RowsOf(d)
      /\ \A p \in Procs :
           (kind[p] = "search" /\ pc'[p] # pc[p]) =>
             UNCHANGED <<docs, index, nextId, commitSeq>>
      /\ (Returned /\ Last.kind = "search") =>
           UNCHANGED <<docs, index, nextId, commitSeq>>
    ]_vars

\* the stored document is as it was after one add_document succeeded and
\* another one was rejected or failed
C23_Witness ==
  /\ AllReturned
  /\ StoredDoc \in docs
  /\ RowsOf(StoredDoc) = index_entries(StoredDoc.content, StoredDoc.id)
  /\ \E i, j \in DOMAIN log :
       /\ IsAdd(log[i]) /\ log[i].site = 96
       /\ RowsOf(log[i].new_doc) # {}
       /\ IsAdd(log[j]) /\ log[j].site = 101

\* C24: a cache entry is created only by the cache write of a search, and while
\* an entry exists its value stays the same: no search replaces it, also after
\* a failed read or deserialization of it.
C24_EntryNeverReplaced ==
  [][ /\ \A key \in DOMAIN cache' \ DOMAIN cache :
           \E p \in Procs :
             /\ kind[p] = "search"
             /\ pc[p] = "cache_set" /\ pc'[p] = "idle"
             /\ key = cache_key(query_lower(arg[p].query))
      /\ \A key \in DOMAIN cache \cap DOMAIN cache' :
           cache'[key].data = cache[key].data
    ]_vars

\* C25: every token split_to_words returns is non-empty and made of lowercase
\* letters, digits and underscores, and split_to_words applied to the tokens
\* joined by a single space returns the same tokens.
C25_TokenizeIdempotent ==
  /\ \A i \in DOMAIN log :
       log[i].kind = "split" =>
         \A k \in DOMAIN log[i].results :
           /\ log[i].results[k] # <<>>
           /\ \A c \in Range(log[i].results[k]) :
                \/ c \in Range(LowerChars)
                \/ c \in Range(DigitChars)
                \/ c = "_"
  /\ (Len(log) = 2 /\ log[1].kind = "split" /\ log[2].kind = "split") =>
       /\ log[2].content = join(log[1].results)
       /\ log[2].results = log[1].results

C25_Witness ==
  /\ Len(log) = 2
  /\ log[1].kind = "split" /\ log[1].content = HelloText
  /\ log[2].kind = "split" /\ log[2].content # HelloText
  /\ Len(log[2].content) = 26
  /\ log[2].results = log[1].results
  /\ Len(log[2].results) = 6

\* C27: 'Test123 test_456 test-789' gives [test123, test_456, test_789]: the
\* hyphen-joined word is one token, its hyphen turned into an underscore.
C27_HyphenBecomesUnderscore ==
  \A i \in DOMAIN log :
    (log[i].kind = "split" /\ log[i].content = DigitsText) =>
      log[i].results = << <<"t", "e", "s", "t", "1", "2", "3">>,
                          <<"t", "e", "s", "t", "_", "4", "5", "6">>,
                          <<"t", "e", "s", "t", "_", "7", "8", "9">> >>

\* the failures of an upgrade attempt that are connection failures: every
\* OperationalError, and a CommandError whose message tells of one
ConnectionFailures ==
  {e \in UpgradeErrors :
     \/ e.class = "OperationalError"
     \/ /\ e.class = "CommandError"
        /\ e.msg \in {RefusedMsg, NotConnectMsg, TimeoutMsg, ServerClosedMsg}}

MigrationOver == migration.pc \in {"returned", "raised", "reraised"}

\* C26: run_migrations always terminates; it makes at most 15 upgrade
\* attempts, returns as soon as one attempt succeeds (and only then), goes on
\* to another attempt only after a connection failure, raises RuntimeError
\* when the 15th attempt fails with a connection failure (and only then), and
\* re-raises any other error at once, with no further attempt.
C26_MigrationsTerminate ==
  /\ [](/\ migration.attempt <= 15
        /\ migration.pc = "returned" <=>
             (migration.attempt > 0 /\ migration.e = NoException)
        /\ migration.pc = "raised" <=>
             (migration.attempt = 15 /\ migration.e \in ConnectionFailures)
        /\ migration.pc = "reraised" <=>
             migration.e \in UpgradeErrors \ ConnectionFailures
        /\ migration.pc = "upgrade" <=>
             \/ migration.attempt = 0
             \/ migration.attempt < 15 /\ migration.e \in ConnectionFailures)
  /\ [][/\ ~MigrationOver
        /\ migration'.attempt = migration.attempt + 1]_migration
  /\ <>MigrationOver

\* the 15th attempt failed like the 14 before it and RuntimeError is raised
C26_Witness ==
  /\ migration.pc = "raised"
  /\ migration.attempt = 15
  /\ migration.e = [class |-> "CommandError", msg |-> TimeoutMsg]

=============================================================================
